---- MODULE Spec2Model ----
(***************************************************************************)
(* A model of grendel's PointGroup (lib/python/grendel/symmetry/           *)
(* point_group.py): construction of a point group from a list of symmetry  *)
(* operations (closure scan with inverse linking, conjugacy classes,       *)
(* operation naming, Schoenflies name) and the two lookups.                *)
(*                                                                         *)
(* Symmetry operations are records [kind, n, exponent, axis]; their        *)
(* matrices are exact 3x3 integer matrices, so that composition is real    *)
(* matrix multiplication.  A Python object is an index into the sequence   *)
(* el; two objects may carry the same operation record.                    *)
(***************************************************************************)
EXTENDS Integers, Sequences, FiniteSets, TLC

\* Longest operation list handed to the constructor.
MaxLen == 3

\* Most operations the lookups may append to a constructed group.
MaxAppend == 1

\* Most reflections an inventory with several high-order axes is drawn with.
MaxCount == 7

\* Highest principal order, and most perpendicular twofold axes and vertical
\* reflections, an inventory with one principal axis is drawn with.
MaxAxes == 4

(***************************************************************************)
(* Vectors and matrices (grendel.gmath, outside point_group.py).           *)
(***************************************************************************)
Dot(a, b) == a[1] * b[1] + a[2] * b[2] + a[3] * b[3]

Cross(a, b) ==
    << a[2] * b[3] - a[3] * b[2],
       a[3] * b[1] - a[1] * b[3],
       a[1] * b[2] - a[2] * b[1] >>

ZeroVec == << 0, 0, 0 >>
XAxis == << 1, 0, 0 >>
YAxis == << 0, 1, 0 >>
ZAxis == << 0, 0, 1 >>

Delta(r, c) == IF r = c THEN 1 ELSE 0

\* A 3x3 matrix is a tuple of three rows.
Mat3(F(_, _)) ==
    << << F(1, 1), F(1, 2), F(1, 3) >>,
       << F(2, 1), F(2, 2), F(2, 3) >>,
       << F(3, 1), F(3, 2), F(3, 3) >> >>

MatMul(A, B) ==
    LET P(r, c) == A[r][1] * B[1][c] + A[r][2] * B[2][c] + A[r][3] * B[3][c]
    IN  Mat3(P)

IdentityMatrix == Mat3(Delta)

\* cos and sin of the angle 2*pi*e/n, for the orders whose values are integers.
CosOf(n, e) ==
    CASE n = 1 -> 1
      [] n = 2 -> IF e % 2 = 0 THEN 1 ELSE -1
      [] n = 4 -> CASE e % 4 = 0 -> 1 [] e % 4 = 2 -> -1 [] OTHER -> 0

SinOf(n, e) ==
    CASE n = 1 -> 0
      [] n = 2 -> 0
      [] n = 4 -> CASE e % 4 = 1 -> 1 [] e % 4 = 3 -> -1 [] OTHER -> 0

\* The matrix [a]x of the cross product with a.
CrossMatrix(a) ==
    << << 0, -a[3], a[2] >>, << a[3], 0, -a[1] >>, << -a[2], a[1], 0 >> >>

\* Rodrigues' formula for the rotation by 2*pi*e/n about the axis a; the
\* division is exact for the axes of the universe below.
RotationMatrix(n, e, a) ==
    LET R(r, c) == CosOf(n, e) * Delta(r, c)
                   + SinOf(n, e) * CrossMatrix(a)[r][c]
                   + ((1 - CosOf(n, e)) * a[r] * a[c]) \div Dot(a, a)
    IN  Mat3(R)

\* The reflection through the plane with normal a.
ReflectionMatrix(a) ==
    LET R(r, c) == Delta(r, c) - (2 * a[r] * a[c]) \div Dot(a, a)
    IN  Mat3(R)

(***************************************************************************)
(* Symmetry operations (the SymmetryOperation subclasses).                 *)
(***************************************************************************)
IdentityOperation == [kind |-> "Identity", n |-> 0, exponent |-> 0, axis |-> ZeroVec]
Inversion == [kind |-> "Inversion", n |-> 0, exponent |-> 0, axis |-> ZeroVec]
Rotation(order, e, a) == [kind |-> "Rotation", n |-> order, exponent |-> e, axis |-> a]
ImproperRotation(order, e, a) ==
    [kind |-> "ImproperRotation", n |-> order, exponent |-> e, axis |-> a]
Reflection(a) == [kind |-> "Reflection", n |-> 0, exponent |-> 0, axis |-> a]

\* The matrix of an operation, from its kind, order, exponent and axis.
MatrixOf(op) ==
    LET Neg(r, c) == -Delta(r, c)
    IN  CASE op.kind = "Identity" -> IdentityMatrix
          [] op.kind = "Inversion" -> Mat3(Neg)
          [] op.kind = "Rotation" -> RotationMatrix(op.n, op.exponent, op.axis)
          [] op.kind = "Reflection" -> ReflectionMatrix(op.axis)
          [] op.kind = "ImproperRotation" ->
                MatMul(ReflectionMatrix(op.axis),
                       RotationMatrix(op.n, op.exponent, op.axis))

\* SymmetryOperation.is_same_matrix, exact on integer matrices.
is_same_matrix(A, B) == A = B

\* SymmetryOperation.is_same_axis: parallel or antiparallel.
is_same_axis(a, b) == a # ZeroVec /\ b # ZeroVec /\ Cross(a, b) = ZeroVec

\* SymmetryOperation.is_perpendicular
is_perpendicular(a, b) == Dot(a, b) = 0

\* The operations of D_4h about the z axis: every product of two of them is
\* the matrix of one of them.  The twofold rotation about z appears both as
\* the rotation of order 2 and as the square of the fourfold rotation.
DiagA == << 1, 1, 0 >>
DiagB == << 1, -1, 0 >>

Universe ==
    { IdentityOperation, Inversion,
      Rotation(4, 1, ZAxis), Rotation(4, 2, ZAxis), Rotation(4, 3, ZAxis),
      Rotation(2, 1, ZAxis), Rotation(2, 1, XAxis), Rotation(2, 1, YAxis),
      Rotation(2, 1, DiagA), Rotation(2, 1, DiagB),
      ImproperRotation(4, 1, ZAxis), ImproperRotation(4, 3, ZAxis),
      Reflection(ZAxis), Reflection(XAxis), Reflection(YAxis),
      Reflection(DiagA), Reflection(DiagB) }

\* op.matrix, computed once per operation.
MatrixTable == [u \in Universe |-> MatrixOf(u)]

Matrix(op) == MatrixTable[op]

\* The operations a caller builds operation lists and lookup arguments from.
Generators ==
    { IdentityOperation, Inversion, Rotation(4, 1, ZAxis), Rotation(2, 1, ZAxis),
      Reflection(YAxis) }

(***************************************************************************)
(* The total order of operations (SymmetryOperation.__lt__): kind, then    *)
(* order n with the highest first, then exponent, then the axis.           *)
(***************************************************************************)
KindPriority(op) ==
    CASE op.kind = "Identity" -> 0
      [] op.kind = "Rotation" -> 1
      [] op.kind = "ImproperRotation" -> 2
      [] op.kind = "Reflection" -> 3
      [] op.kind = "Inversion" -> 4

AxisKey(a) ==
    CASE is_same_axis(a, ZAxis) -> 0
      [] is_same_axis(a, XAxis) -> 1
      [] is_same_axis(a, YAxis) -> 2
      [] OTHER -> 3 + ((a[1] + 19) * 39 + (a[2] + 19)) * 39 + (a[3] + 19)

SortKey(op) == << KindPriority(op), -op.n, op.exponent, AxisKey(op.axis) >>

RECURSIVE LexLess(_, _, _)
LexLess(k1, k2, p) ==
    IF p > Len(k1) THEN FALSE
    ELSE IF k1[p] # k2[p] THEN k1[p] < k2[p]
    ELSE LexLess(k1, k2, p + 1)

\* op1 < op2
Less(op1, op2) == LexLess(SortKey(op1), SortKey(op2), 1)

\* s with x put before the first entry that x is smaller than.
RECURSIVE InsertSorted(_, _, _)
InsertSorted(s, x, els) ==
    IF s = << >> THEN << x >>
    ELSE IF Less(els[x], els[Head(s)]) THEN << x >> \o s
    ELSE << Head(s) >> \o InsertSorted(Tail(s), x, els)

\* list.sort() / sorted(): stable, by <.
RECURSIVE SortFrom(_, _, _, _)
SortFrom(s, k, acc, els) ==
    IF k > Len(s) THEN acc
    ELSE SortFrom(s, k + 1, InsertSorted(acc, s[k], els), els)

Sorted(s, els) == SortFrom(s, 1, << >>, els)

\* The entries of s whose object satisfies Test, in order.
SelectIds(s, els, Test(_)) ==
    LET Keep(x) == Test(els[x])
    IN  SelectSeq(s, Keep)

Range(s) == { s[k] : k \in 1..Len(s) }

(***************************************************************************)
(* State of one PointGroup and of its construction.                        *)
(***************************************************************************)
VARIABLES
    el,                 \* the operation objects: object id -> operation
    operations,         \* self.operations: sequence of object ids
    inverse,            \* op.inverse per object, 0 for None
    opname,             \* op.name per object, "" for None
    principal_reflection, \* op.principal_reflection per object
    classes,            \* self.classes: sequence of sets of object ids
    name,               \* self.name, "" for None
    generate_elements,  \* self._generate_elements
    pc,                 \* the step of __init__ reached, "ready" or "failed"
    iop, jop,           \* positions of the two loops of _check_closure
    err,                \* the GroupTheoryError that ended the construction
    supplied,           \* number of operations handed to __init__
    appended,           \* operations the lookups appended after construction
    ret                 \* the last lookup's result: an object id, 0: raised, -1: none yet

vars == << el, operations, inverse, opname, principal_reflection, classes, name,
           generate_elements, pc, iop, jop, err, supplied, appended, ret >>

\* All sequences over S of length at most n.
SeqUpTo(S, n) == UNION { [1..k -> S] : k \in 0..n }

\* PointGroup.__init__, lines 64-72, up to the call of _check_closure.
InitWith(ops, gen) ==
    /\ el = ops
    /\ operations = [k \in 1..Len(ops) |-> k]
    /\ inverse = [k \in 1..Len(ops) |-> 0]
    /\ opname = [k \in 1..Len(ops) |-> ""]
    /\ principal_reflection = [k \in 1..Len(ops) |-> FALSE]
    /\ classes = << >>
    /\ name = ""
    /\ generate_elements = gen
    /\ iop = 1
    /\ jop = 1
    /\ err = ""
    /\ supplied = Len(ops)
    /\ appended = 0
    /\ ret = -1

\* Whole groups handed to the constructor: C_2v, C_2h about x, D_4.
Fixtures ==
    { << IdentityOperation, Rotation(2, 1, ZAxis), Reflection(YAxis), Reflection(XAxis) >>,
      << IdentityOperation, Rotation(2, 1, XAxis), Inversion, Reflection(XAxis) >>,
      << IdentityOperation, Rotation(4, 1, ZAxis), Rotation(4, 2, ZAxis),
         Rotation(4, 3, ZAxis), Rotation(2, 1, XAxis), Rotation(2, 1, YAxis),
         Rotation(2, 1, DiagA), Rotation(2, 1, DiagB) >> }

Init ==
    \E ops \in SeqUpTo(Generators, MaxLen) \cup Fixtures, gen \in BOOLEAN :
        /\ InitWith(ops, gen)
        /\ pc = "check_closure"

\* A GroupTheoryError leaves __init__: the object is never handed out.
Raise(kind) ==
    /\ pc' = "failed"
    /\ err' = kind

(***************************************************************************)
(* Lookups.                                                                *)
(***************************************************************************)
\* SymmetryOperation.__eq__: the same matrix.
Eq(op1, op2) == is_same_matrix(Matrix(op1), Matrix(op2))

\* The first entry of s whose object satisfies Test, 0 when there is none.
FirstWhere(s, els, Test(_)) ==
    LET hits == { k \in 1..Len(s) : Test(els[s[k]]) }
    IN  IF hits = {} THEN 0
        ELSE s[CHOOSE k \in hits : \A h \in hits : k <= h]

\* identity_element without the isinstance test: the first element.
identity_element_untested(ops, els) ==
    IF ops = << >> THEN 0 ELSE ops[1]

\* identity_element: the first IdentityOperation, 0 when it raises.
identity_element(ops, els) ==
    LET IsIdentity(op) == op.kind = "Identity"
    IN  FirstWhere(ops, els, IsIdentity)

\* element_with_matrix that answers with the first element of the list
\* instead of raising when no element has the matrix.
element_with_matrix_or_first(ops, els, mat) ==
    LET HasMatrix(op) == is_same_matrix(Matrix(op), mat)
        found == FirstWhere(ops, els, HasMatrix)
    IN  IF found = 0 /\ ops # << >> THEN ops[1] ELSE found

\* element_with_matrix: the first element with that matrix, 0 when it raises.
element_with_matrix(ops, els, mat) ==
    LET HasMatrix(op) == is_same_matrix(Matrix(op), mat)
    IN  FirstWhere(ops, els, HasMatrix)

\* element_for that never appends: without a match it raises in both modes.
element_for_never_appends(ops, els, gen, op) ==
    LET Same(o) == Eq(o, op)
    IN  [ops |-> ops, els |-> els, result |-> FirstWhere(ops, els, Same)]

\* element_for that appends without asking _generate_elements.
element_for_always_appends(ops, els, gen, op) ==
    LET Same(o) == Eq(o, op)
        found == FirstWhere(ops, els, Same)
    IN  IF found # 0 THEN [ops |-> ops, els |-> els, result |-> found]
        ELSE [ops |-> Append(ops, Len(els) + 1), els |-> Append(els, op),
              result |-> Len(els) + 1]

\* element_for: the element equal to op; when there is none, op is appended
\* under _generate_elements, and the lookup raises (result 0) otherwise.
element_for(ops, els, gen, op) ==
    LET Same(o) == Eq(o, op)
        found == FirstWhere(ops, els, Same)
    IN  IF found # 0 THEN [ops |-> ops, els |-> els, result |-> found]
        ELSE IF gen
        THEN [ops |-> Append(ops, Len(els) + 1), els |-> Append(els, op),
              result |-> Len(els) + 1]
        ELSE [ops |-> ops, els |-> els, result |-> 0]

\* The operation a product matrix is identified as.  The twofold rotation
\* about z is the square of the fourfold rotation when the list holds one.
OperationWithMatrix(ops, els, mat) ==
    LET cands == { u \in Universe : is_same_matrix(Matrix(u), mat) }
        fourfold == \E k \in Range(ops) : els[k].kind = "Rotation" /\ els[k].n = 4
    IN  IF Cardinality(cands) = 1 THEN CHOOSE u \in cands : TRUE
        ELSE CHOOSE u \in cands : (u.n = 4) <=> fourfold

\* SymmetryOperation.__mul__: the element of the group with the product's
\* matrix; with self-extension the product goes through element_for.
Mul(ops, els, gen, a, b) ==
    LET mat == MatMul(Matrix(els[a]), Matrix(els[b]))
    IN  IF gen THEN element_for(ops, els, gen, OperationWithMatrix(ops, els, mat))
        ELSE [ops |-> ops, els |-> els, result |-> element_with_matrix(ops, els, mat)]

(***************************************************************************)
(* _check_closure                                                          *)
(***************************************************************************)
\* Lines 189-190: an inverse slot holds an operation other than the new one.
InverseConflict(inv, els, a, b) ==
    \/ (inv[a] # 0 /\ ~Eq(els[inv[a]], els[b]))
    \/ (inv[b] # 0 /\ ~Eq(els[inv[b]], els[a]))

\* Lines 192-193: iop.inverse = jop, then jop.inverse = iop.
LinkInverse(inv, a, b) == [[inv EXCEPT ![a] = b] EXCEPT ![b] = a]

\* The slots of the fields of objects, grown to the objects of els.
Grown(f, els, blank) == [k \in 1..Len(els) |-> IF k <= Len(f) THEN f[k] ELSE blank]

\* One pass of the body of the inner loop, lines 188-193, and the step of the
\* two list iterators to the next pair.
CheckClosurePair ==
    /\ pc = "check_closure"
    /\ iop <= Len(operations)
    /\ jop <= Len(operations)
    /\ LET a == operations[iop]
           b == operations[jop]
           prod == Mul(operations, el, generate_elements, a, b)
           ident == identity_element(prod.ops, prod.els)
           inv == Grown(inverse, prod.els, 0)
       IN  IF prod.result = 0
           THEN /\ Raise("GroupNotClosed")
                /\ UNCHANGED << el, operations, inverse, opname,
                                principal_reflection, iop, jop >>
           ELSE /\ el' = prod.els
                /\ operations' = prod.ops
                /\ opname' = Grown(opname, prod.els, "")
                /\ principal_reflection' = Grown(principal_reflection, prod.els, FALSE)
                /\ IF ident = 0
                   THEN /\ Raise("MissingIdentity")
                        /\ inverse' = inv
                        /\ UNCHANGED << iop, jop >>
                   ELSE IF ~Eq(prod.els[prod.result], prod.els[ident])
                   THEN /\ inverse' = inv
                        /\ UNCHANGED << pc, err >>
                        /\ IF jop < Len(prod.ops)
                           THEN jop' = jop + 1 /\ iop' = iop
                           ELSE jop' = 1 /\ iop' = iop + 1
                   ELSE IF InverseConflict(inv, prod.els, a, b)
                   THEN /\ Raise("NonUniqueInverse")
                        /\ inverse' = inv
                        /\ UNCHANGED << iop, jop >>
                   ELSE /\ inverse' = LinkInverse(inv, a, b)
                        /\ UNCHANGED << pc, err >>
                        /\ IF jop < Len(prod.ops)
                           THEN jop' = jop + 1 /\ iop' = iop
                           ELSE jop' = 1 /\ iop' = iop + 1
    /\ UNCHANGED << classes, name, generate_elements, supplied, appended, ret >>

\* The outer loop is exhausted: _check_closure returns.
CheckClosureEnd ==
    /\ pc = "check_closure"
    /\ iop > Len(operations)
    /\ pc' = "compute_classes"
    /\ UNCHANGED << el, operations, inverse, opname, principal_reflection, classes,
                    name, generate_elements, iop, jop, err, supplied, appended, ret >>

(***************************************************************************)
(* _compute_classes                                                        *)
(***************************************************************************)
\* ConjugacyClass.__contains__: some member equals op.
InClass(cl, els, op) == \E m \in cl : Eq(els[m], els[op])

\* ConjugacyClass.add_element: duplicate-safe.
add_element(cl, els, op) == IF InClass(cl, els, op) THEN cl ELSE cl \cup {op}

\* g * op * g in place of g * op * g.inverse.
Conjugate_without_inverse(ops, els, inv, g, op) ==
    LET first == element_with_matrix(ops, els, MatMul(Matrix(els[g]), Matrix(els[op])))
    IN  IF first = 0 \/ inv[g] = 0 THEN 0
        ELSE element_with_matrix(ops, els,
                 MatMul(Matrix(els[first]), Matrix(els[g])))

\* g * op * g.inverse, line 209: two products, each looked up in the group;
\* 0 when a product is no element or g has no inverse.  After the closure
\* scan every product is an element, so lookup-or-insert never inserts here.
Conjugate(ops, els, inv, g, op) ==
    LET first == element_with_matrix(ops, els, MatMul(Matrix(els[g]), Matrix(els[op])))
    IN  IF first = 0 \/ inv[g] = 0 THEN 0
        ELSE element_with_matrix(ops, els,
                 MatMul(Matrix(els[first]), Matrix(els[inv[g]])))

\* The loop of lines 207-209 over g, from position k, for the class cl of op.
RECURSIVE AddConjugates(_, _, _, _, _, _)
AddConjugates(cl, ops, els, inv, op, k) ==
    IF k > Len(ops) THEN [ok |-> TRUE, cl |-> cl]
    ELSE IF ops[k] = op THEN AddConjugates(cl, ops, els, inv, op, k + 1)
    ELSE LET x == Conjugate(ops, els, inv, ops[k], op)
         IN  IF x = 0 THEN [ok |-> FALSE, cl |-> cl]
             ELSE AddConjugates(add_element(cl, els, x), ops, els, inv, op, k + 1)

\* The positions in cls of the classes that contain op, line 199.
ClassesOf(cls, els, op) == { c \in 1..Len(cls) : InClass(cls[c], els, op) }

\* The loop of lines 198-209 over op, from position k.
RECURSIVE ClassesFrom(_, _, _, _, _)
ClassesFrom(cls, ops, els, inv, k) ==
    IF k > Len(ops) THEN [err |-> "", classes |-> cls]
    ELSE LET op == ops[k]
             mine == ClassesOf(cls, els, op)
         IN  IF Cardinality(mine) > 1
             THEN [err |-> "ClassesNotDisjoint", classes |-> cls]
             ELSE LET cls1 == IF mine = {} THEN Append(cls, {op}) ELSE cls
                      c == IF mine = {} THEN Len(cls1) ELSE CHOOSE x \in mine : TRUE
                      grown == AddConjugates(cls1[c], ops, els, inv, op, 1)
                  IN  IF ~grown.ok
                      THEN [err |-> "GroupNotClosed", classes |-> cls1]
                      ELSE ClassesFrom([cls1 EXCEPT ![c] = grown.cl],
                                       ops, els, inv, k + 1)

compute_classes(ops, els, inv) == ClassesFrom(<< >>, ops, els, inv, 1)

ComputeClasses ==
    /\ pc = "compute_classes"
    /\ LET res == compute_classes(operations, el, inverse)
       IN  /\ classes' = res.classes
           /\ IF res.err = "" THEN pc' = "name_operations" /\ err' = err
              ELSE Raise(res.err)
    /\ UNCHANGED << el, operations, inverse, opname, principal_reflection, name,
                    generate_elements, iop, jop, supplied, appended, ret >>

(***************************************************************************)
(* The cached collections of the group                                     *)
(***************************************************************************)
rotations(ops, els) ==
    LET IsRotation(op) == op.kind = "Rotation"
    IN  SelectIds(ops, els, IsRotation)

improper_rotations(ops, els) ==
    LET IsImproper(op) == op.kind = "ImproperRotation"
    IN  SelectIds(ops, els, IsImproper)

reflections(ops, els) ==
    LET IsReflection(op) == op.kind = "Reflection"
    IN  SelectIds(ops, els, IsReflection)

\* inversion: the first Inversion, 0 for None.
inversion(ops, els) ==
    LET IsInversion(op) == op.kind = "Inversion"
    IN  FirstWhere(ops, els, IsInversion)

(***************************************************************************)
(* _name_operations                                                        *)
(***************************************************************************)
\* The first group of itertools.groupby(s, key): the longest prefix of s
\* whose objects share the key of the first.
FirstGroup(s, els, Key(_)) ==
    LET after == { k \in 1..Len(s) : Key(els[s[k]]) # Key(els[s[1]]) }
    IN  IF s = << >> THEN << >>
        ELSE IF after = {} THEN s
        ELSE SubSeq(s, 1, (CHOOSE k \in after : \A h \in after : k <= h) - 1)

KeyN(op) == op.n
KeyNExponent(op) == << op.n, op.exponent >>

\* The groups of itertools.groupby(s, attrgetter('n')).
RECURSIVE GroupsByN(_, _)
GroupsByN(s, els) ==
    IF s = << >> THEN << >>
    ELSE LET g == FirstGroup(s, els, KeyN)
         IN  << g >> \o GroupsByN(SubSeq(s, Len(g) + 1, Len(s)), els)

\* Lines 216-219: the first (n, exponent) group of the sorted rotations.
principal_rotations(ops, els) ==
    FirstGroup(Sorted(rotations(ops, els), els), els, KeyNExponent)

\* Lines 220-232: the principal_reflection flags after the marking.
PrincipalFlags(ops, els, flags) ==
    LET pr == principal_rotations(ops, els)
        refs == reflections(ops, els)
    IN  IF pr = << >> THEN flags
        ELSE IF els[pr[1]].n > 2
        THEN [k \in DOMAIN flags |->
                 \/ flags[k]
                 \/ /\ k \in Range(refs)
                    /\ \E r \in Range(pr) : is_same_axis(els[k].axis, els[r].axis)]
        ELSE LET Aligned(op) == is_same_axis(op.axis, els[pr[1]].axis)
                 first == FirstWhere(refs, els, Aligned)
             IN  [k \in DOMAIN flags |-> flags[k] \/ k = first]

\* "'" * k
RECURSIVE Primes(_)
Primes(k) == IF k <= 0 THEN "" ELSE "'" \o Primes(k - 1)

\* The labels list of lines 253-271 / 287-305 for the first naxes members of
\* a group, from position k on; ydir is the direction the "(y)" test uses.
RECURSIVE AxisLabels(_, _, _, _, _, _, _, _)
AxisLabels(grp, els, ydir, naxes, k, labels, prime_count, has_paren_label) ==
    IF k > naxes \/ k > Len(grp) THEN labels
    ELSE LET axis == els[grp[k]].axis
         IN  IF is_same_axis(axis, ZAxis)
             THEN AxisLabels(grp, els, ydir, naxes, k + 1,
                             Append(labels, "(z)"), prime_count, TRUE)
             ELSE IF is_same_axis(axis, ydir)
             THEN AxisLabels(grp, els, ydir, naxes, k + 1,
                             Append(labels, "(y)"), prime_count, TRUE)
             ELSE IF is_same_axis(axis, XAxis)
             THEN AxisLabels(grp, els, ydir, naxes, k + 1,
                             Append(labels, "(x)"), prime_count, TRUE)
             ELSE AxisLabels(grp, els, ydir, naxes, k + 1,
                     Append(labels,
                            Primes(prime_count + (IF has_paren_label THEN 1 ELSE 0))),
                     prime_count + 1, has_paren_label)

NumAxes(grp, els) == Cardinality({ k \in 1..Len(grp) : els[grp[k]].exponent = 1 })

\* labels[i % naxes] raises ZeroDivisionError for a group with several axes
\* and no member of exponent 1.
GroupNamable(grp, els) ==
    Len(grp) = els[grp[1]].n - 1 \/ NumAxes(grp, els) > 0

\* Lines 241-273 / 275-307: the names of the members of one order group.
GroupNames(grp, els, prefix, ydir) ==
    LET order == els[grp[1]].n
        base == prefix \o ToString(order)
        naxes == NumAxes(grp, els)
        labels == AxisLabels(grp, els, ydir, naxes, 1, << >>, 0, FALSE)
    IN  IF Len(grp) = order - 1
        THEN [k \in 1..Len(grp) |->
                 IF k = 1 THEN base
                 ELSE base \o "^" \o ToString(els[grp[k]].exponent)]
        ELSE [k \in 1..Len(grp) |->
                 IF k <= naxes THEN base \o labels[k]
                 ELSE base \o labels[((k - 1) % naxes) + 1]
                           \o "^" \o ToString(els[grp[k]].exponent)]

\* The names given to the objects of the groups, written over names.
RECURSIVE NameGroups(_, _, _, _, _)
NameGroups(groups, els, names, prefix, ydir) ==
    IF groups = << >> THEN names
    ELSE LET grp == Head(groups)
             given == GroupNames(grp, els, prefix, ydir)
             pos(x) == CHOOSE k \in 1..Len(grp) : grp[k] = x
         IN  NameGroups(Tail(groups), els,
                        [x \in DOMAIN names |->
                            IF x \in Range(grp) THEN given[pos(x)] ELSE names[x]],
                        prefix, ydir)

\* Lines 240-273: proper rotations; the "(y)" test compares with (0,1,1).
NameRotations(ops, els, names) ==
    NameGroups(GroupsByN(rotations(ops, els), els), els, names, "C_", << 0, 1, 1 >>)

\* Lines 274-307: improper rotations; the "(y)" test compares with (0,1,0).
NameImproperRotations(ops, els, names) ==
    NameGroups(GroupsByN(improper_rotations(ops, els), els), els, names, "S_", YAxis)

\* Reflection.is_dihedral: the plane holds the principal axis and bisects two
\* twofold axes perpendicular to it.
is_dihedral(ops, els, ref) ==
    LET rots == rotations(ops, els)
        a == els[ref].axis
        SqNorm(u) == Dot(u, u)
        Twofold(r) == /\ els[r].n = 2
                      /\ is_perpendicular(els[rots[1]].axis, els[r].axis)
    IN  /\ rots # << >>
        /\ is_perpendicular(a, els[rots[1]].axis)
        /\ \E r1, r2 \in Range(rots) :
              /\ Twofold(r1) /\ Twofold(r2)
              /\ ~is_same_axis(els[r1].axis, els[r2].axis)
              /\ Dot(a, els[r1].axis) # 0
              /\ Dot(a, els[r1].axis) * Dot(a, els[r1].axis) * SqNorm(els[r2].axis)
                 = Dot(a, els[r2].axis) * Dot(a, els[r2].axis) * SqNorm(els[r1].axis)

\* Lines 308-330: the names of the reflections refs, from position k on.
RECURSIVE NameReflections(_, _, _, _, _, _, _, _)
NameReflections(refs, ops, els, flags, names, k, prime_count, has_paren_label) ==
    IF k > Len(refs) THEN names
    ELSE LET ref == refs[k]
             subscript == IF flags[ref] THEN "h"
                          ELSE IF is_dihedral(ops, els, ref) THEN "d" ELSE "v"
             axis == els[ref].axis
             plane == CASE is_same_axis(axis, ZAxis) -> "(xy)"
                        [] is_same_axis(axis, YAxis) -> "(xz)"
                        [] is_same_axis(axis, XAxis) -> "(yz)"
                        [] OTHER -> ""
             label == IF plane # "" THEN plane
                      ELSE Primes(prime_count[subscript]
                                  + (IF has_paren_label THEN 1 ELSE 0))
         IN  NameReflections(refs, ops, els, flags,
                 [names EXCEPT ![ref] = "sigma_" \o subscript \o label],
                 k + 1,
                 IF plane # "" THEN prime_count
                 ELSE [prime_count EXCEPT ![subscript] = @ + 1],
                 has_paren_label \/ plane # "")

\* ConjugacyClass.first_element: the smallest member.
first_element(cl, els) ==
    CHOOSE m \in cl : \A o \in cl : ~Less(els[o], els[m]) /\ (Eq(els[o], els[m]) => m <= o)

\* Line 331: self.classes.sort(key=attrgetter('first_element')).
RECURSIVE InsertClass(_, _, _)
InsertClass(s, cl, els) ==
    IF s = << >> THEN << cl >>
    ELSE IF Less(els[first_element(cl, els)], els[first_element(Head(s), els)])
    THEN << cl >> \o s
    ELSE << Head(s) >> \o InsertClass(Tail(s), cl, els)

RECURSIVE SortClasses(_, _, _, _)
SortClasses(cls, k, acc, els) ==
    IF k > Len(cls) THEN acc
    ELSE SortClasses(cls, k + 1, InsertClass(acc, cls[k], els), els)

\* Lines 237-330: every name _name_operations assigns, over the sorted list.
AssignNames(ops, els, flags, names) ==
    LET e == identity_element(ops, els)
        i == inversion(ops, els)
        n1 == [x \in DOMAIN names |->
                  IF x = e THEN "E" ELSE IF x = i THEN "i" ELSE names[x]]
        n2 == NameRotations(ops, els, n1)
        n3 == NameImproperRotations(ops, els, n2)
    IN  NameReflections(reflections(ops, els), ops, els, flags, n3, 1,
                        [c \in {"v", "d", "h"} |-> 0], FALSE)

NameOperations ==
    /\ pc = "name_operations"
    /\ LET flags == PrincipalFlags(operations, el, principal_reflection)
           sorted == Sorted(operations, el)
           groups == GroupsByN(rotations(sorted, el), el)
                     \o GroupsByN(improper_rotations(sorted, el), el)
       IN  /\ principal_reflection' = flags
           /\ operations' = sorted
           /\ IF identity_element(sorted, el) = 0
              THEN /\ Raise("MissingIdentity")
                   /\ UNCHANGED << opname, classes >>
              ELSE IF \E g \in 1..Len(groups) : ~GroupNamable(groups[g], el)
              THEN /\ Raise("ZeroDivisionError")
                   /\ UNCHANGED << opname, classes >>
              ELSE /\ opname' = AssignNames(sorted, el, flags, opname)
                   /\ classes' = SortClasses(classes, 1, << >>, el)
                   /\ pc' = "get_name"
                   /\ err' = err
    /\ UNCHANGED << el, inverse, name, generate_elements, iop, jop, supplied,
                    appended, ret >>

(***************************************************************************)
(* _get_name                                                               *)
(***************************************************************************)
Count(s, els, Test(_)) == Len(SelectIds(s, els, Test))

\* num_C_n_axes(n): the rotations of order n and exponent 1.
num_C_n_axes(ops, els, n) ==
    LET IsAxis(op) == op.n = n /\ op.exponent = 1
    IN  Count(rotations(ops, els), els, IsAxis)

\* Line 341: the rotations of order > 2 and exponent 1.
NumHighAxes(ops, els) ==
    LET IsHigh(op) == op.n > 2 /\ op.exponent = 1
    IN  Count(rotations(ops, els), els, IsHigh)

Unclassifiable == [name |-> "", err |-> "UnclassifiableGroup"]
Named(str) == [name |-> str, err |-> ""]

\* Lines 343-373: two or more axes of order > 2.
PolyhedralName(ops, els) ==
    IF num_C_n_axes(ops, els, 5) = 12
    THEN IF inversion(ops, els) = 0 THEN Named("I") ELSE Named("I_h")
    ELSE IF num_C_n_axes(ops, els, 4) = 6
    THEN IF inversion(ops, els) = 0 THEN Named("O") ELSE Named("O_h")
    ELSE IF num_C_n_axes(ops, els, 3) = 4
    THEN IF inversion(ops, els) = 0
         THEN IF Len(reflections(ops, els)) = 6 THEN Named("T_d") ELSE Named("T")
         ELSE Named("T_h")
    ELSE Unclassifiable

\* The count of lines 378-381 without the perpendicularity test.
TwofoldsOfAnyDirection(ops, els) ==
    LET IsTwofold(op) == op.n = 2
    IN  Count(rotations(ops, els), els, IsTwofold)

\* Lines 378-381: the twofold rotations perpendicular to the first rotation.
PerpendicularTwofolds(ops, els) ==
    LET rots == rotations(ops, els)
        IsPerp(op) == op.n = 2 /\ is_perpendicular(els[rots[1]].axis, op.axis)
    IN  Count(rots, els, IsPerp)

AnyPrincipal(ops, els, flags) == \E r \in Range(reflections(ops, els)) : flags[r]

\* Lines 375-406: fewer than two axes of order > 2, at least one rotation.
AxialName(ops, els, flags) ==
    LET highest_n == els[rotations(ops, els)[1]].n
        nrefl == Len(reflections(ops, els))
        HasDouble(op) == op.n = 2 * highest_n
    IN  IF PerpendicularTwofolds(ops, els) = highest_n
        THEN IF AnyPrincipal(ops, els, flags)
             THEN Named("D_" \o ToString(highest_n) \o "h")
             ELSE IF nrefl = highest_n
             THEN Named("D_" \o ToString(highest_n) \o "d")
             ELSE IF nrefl = 0
             THEN Named("D_" \o ToString(highest_n))
             ELSE Unclassifiable
        ELSE IF AnyPrincipal(ops, els, flags)
             THEN Named("C_" \o ToString(highest_n) \o "h")
             ELSE IF nrefl = highest_n
             THEN Named("C_" \o ToString(highest_n) \o "v")
             ELSE IF Count(improper_rotations(ops, els), els, HasDouble) > 0
             THEN Named("S_" \o ToString(2 * highest_n))
             ELSE Named("C_" \o ToString(highest_n))

\* Lines 408-418: no rotation.
PlainName(ops, els) ==
    IF Len(reflections(ops, els)) = 1 THEN Named("C_s")
    ELSE IF inversion(ops, els) # 0 THEN Named("C_i")
    ELSE IF Len(ops) = 1 THEN Named("C_1")
    ELSE Unclassifiable

get_name(ops, els, flags) ==
    IF NumHighAxes(ops, els) >= 2 THEN PolyhedralName(ops, els)
    ELSE IF Len(rotations(ops, els)) > 0 THEN AxialName(ops, els, flags)
    ELSE PlainName(ops, els)

\* _get_name returns and with it __init__: the group is constructed.
GetName ==
    /\ pc = "get_name"
    /\ LET res == get_name(operations, el, principal_reflection)
       IN  IF res.err = ""
           THEN /\ name' = res.name
                /\ pc' = "ready"
                /\ err' = err
           ELSE /\ Raise(res.err)
                /\ name' = name
    /\ UNCHANGED << el, operations, inverse, opname, principal_reflection, classes,
                    generate_elements, iop, jop, supplied, appended, ret >>

(***************************************************************************)
(* The lookups of a constructed group                                      *)
(***************************************************************************)
\* A caller's element_for(op), with an operation object of its own.
ElementFor ==
    /\ pc = "ready"
    /\ \E op \in Generators :
          LET res == element_for(operations, el, generate_elements, op)
          IN  /\ Len(res.ops) > Len(operations) => appended < MaxAppend
              /\ operations' = res.ops
              /\ el' = res.els
              /\ inverse' = Grown(inverse, res.els, 0)
              /\ opname' = Grown(opname, res.els, "")
              /\ principal_reflection' = Grown(principal_reflection, res.els, FALSE)
              /\ appended' = appended + (Len(res.ops) - Len(operations))
              /\ ret' = res.result
    /\ UNCHANGED << classes, name, generate_elements, pc, iop, jop, err, supplied >>

\* A caller's element_with_matrix(mat).
ElementWithMatrix ==
    /\ pc = "ready"
    /\ \E op \in Generators :
          ret' = element_with_matrix(operations, el, Matrix(op))
    /\ UNCHANGED << el, operations, inverse, opname, principal_reflection, classes,
                    name, generate_elements, pc, iop, jop, err, supplied, appended >>

(***************************************************************************)
(* Operation inventories: the lists _name_operations and _get_name are     *)
(* applied to, drawn by their counts.  The fields the two steps do not     *)
(* read (inverse, classes) are left blank.                                 *)
(***************************************************************************)
\* The k-th direction perpendicular to the principal axis.
PerpAxis(k, paxis) ==
    LET inplane == CASE k = 1 -> << 1, 0 >>
                     [] k = 2 -> << 0, 1 >>
                     [] k = 3 -> << 1, 1 >>
                     [] k = 4 -> << 1, -1 >>
                     [] OTHER -> << 1, k >>
    IN  IF paxis = ZAxis THEN << inplane[1], inplane[2], 0 >>
        ELSE << 0, inplane[2], inplane[1] >>

\* The k-th of the directions of the axes of a polyhedral group.
ObliqueAxis(k) == << (k % 4) + 1, (k \div 4) + 2, 5 >>

\* A list with one principal axis of order n (0: none) with all its powers,
\* c twofold axes and v reflection planes' normals perpendicular to it, and
\* optionally the horizontal reflection, the inversion and the improper
\* rotation of order 2n (of order 4 when there is no principal axis).
AxialInventory(n, paxis, c, v, horiz, inv, imp) ==
    << IdentityOperation >>
    \o [k \in 1..(IF n = 0 THEN 0 ELSE n - 1) |-> Rotation(n, k, paxis)]
    \o [k \in 1..c |-> Rotation(2, 1, PerpAxis(k, paxis))]
    \o [k \in 1..v |-> Reflection(PerpAxis(k, paxis))]
    \o (IF horiz THEN << Reflection(paxis) >> ELSE << >>)
    \o (IF inv THEN << Inversion >> ELSE << >>)
    \o (IF imp THEN << ImproperRotation(IF n = 0 THEN 4 ELSE 2 * n, 1, paxis) >>
        ELSE << >>)

\* The rotations of exponent 1 about k axes of order n, the i-th about
\* ObliqueAxis(base + i), and the square of the first.
HighRotations(n, k, base) ==
    [i \in 1..k |-> Rotation(n, 1, ObliqueAxis(base + i))]
    \o (IF k > 0 THEN << Rotation(n, 2, ObliqueAxis(base + 1)) >> ELSE << >>)

\* A list with k5, k4 and k3 axes of orders 5, 4 and 3, r reflections and
\* optionally the inversion.
PolyhedralInventory(k5, k4, k3, r, inv) ==
    << IdentityOperation >>
    \o HighRotations(5, k5, 0)
    \o HighRotations(4, k4, 12)
    \o HighRotations(3, k3, 18)
    \o [k \in 1..r |-> Reflection(PerpAxis(k, ZAxis))]
    \o (IF inv THEN << Inversion >> ELSE << >>)

Inventories ==
    { AxialInventory(n, paxis, c, v, horiz, inv, imp) :
          n \in {0} \cup 2..MaxAxes, paxis \in {ZAxis, XAxis},
          c \in 0..MaxAxes, v \in 0..MaxAxes,
          horiz \in BOOLEAN, inv \in BOOLEAN, imp \in BOOLEAN }
    \cup
    { PolyhedralInventory(k5, k4, k3, r, inv) :
          k5 \in {0, 12}, k4 \in {0, 6}, k3 \in {0, 1, 2, 4},
          r \in 0..MaxCount, inv \in BOOLEAN }

InventoryInit ==
    \E ops \in Inventories :
        /\ InitWith(ops, FALSE)
        /\ pc = "name_operations"

InventoryNext == NameOperations \/ GetName

InventorySpec == InventoryInit /\ [][InventoryNext]_vars

Next ==
    \/ CheckClosurePair
    \/ CheckClosureEnd
    \/ ComputeClasses
    \/ NameOperations
    \/ GetName
    \/ ElementFor
    \/ ElementWithMatrix

Spec == Init /\ [][Next]_vars

(***************************************************************************)
(* Properties                                                              *)
(***************************************************************************)
MatrixOfObject(x) == Matrix(el[x])

\* Every product of two entries of the operation list is the matrix of an entry.
Closed ==
    \A a \in Range(operations), b \in Range(operations) :
        \E c \in Range(operations) :
            MatrixOfObject(c) = MatMul(MatrixOfObject(a), MatrixOfObject(b))

\* The list handed to the constructor held an IdentityOperation.
SuppliedIdentity == \E k \in 1..supplied : el[k].kind = "Identity"

\* __init__ has returned and no lookup has touched the group since.
Constructed == pc = "ready" /\ appended = 0

\* C1 as stated: with self-extension disabled, a list with an unmatched
\* product never yields a group; its construction ends with the
\* GroupNotClosed error, the list not extended and no name assigned; and the
\* list of every group constructed in this mode is closed.
C1_UnclosedRaisesGroupNotClosed ==
    ~generate_elements =>
        /\ (~Closed /\ pc \in {"ready", "failed"}) =>
              /\ pc = "failed"
              /\ err = "GroupNotClosed"
              /\ Len(operations) = supplied
              /\ name = ""
        /\ pc = "ready" => Closed

\* C1 as amended: with self-extension disabled, a list with an unmatched
\* product never gets past the closure scan; its construction ends with a
\* GroupTheoryError, which is GroupNotClosed, or MissingIdentity when the list
\* holds no IdentityOperation; the list is not extended and no name is
\* assigned; and the list of every group constructed in this mode is closed.
C1_UnclosedNeverConstructs ==
    ~generate_elements =>
        /\ ~Closed =>
              /\ pc \in {"check_closure", "failed"}
              /\ pc = "failed" =>
                    /\ err \in {"GroupNotClosed", "MissingIdentity"}
                    /\ err = "MissingIdentity" => ~SuppliedIdentity
              /\ Len(operations) = supplied
              /\ name = ""
        /\ pc = "ready" => Closed

C1_Witness ==
    /\ ~generate_elements
    /\ ~Closed
    /\ SuppliedIdentity
    /\ supplied = 3
    /\ pc = "failed"
    /\ err = "GroupNotClosed"

GenerateWithIdentity == generate_elements /\ SuppliedIdentity

\* The position of the scan as one number: the list never reaches ScanWidth
\* entries, so every step to a later pair raises it.
ScanWidth == supplied + Cardinality({ Matrix(u) : u \in Universe }) + 1
ScanRank == (iop - 1) * ScanWidth + jop

\* C2: with self-extension enabled and an identity in the supplied list, the
\* pair scan over the growing list ends (one of its two steps is always
\* enabled: the guard of CheckClosureEnd or that of CheckClosurePair holds;
\* the list stays bounded; every step moves to a later pair or leaves), it
\* ends without an error, and the list it leaves is closed under composition.
C2_SelfExtensionCloses ==
    /\ []((GenerateWithIdentity /\ pc = "check_closure") =>
            /\ iop > Len(operations) \/ jop <= Len(operations)
            /\ Len(operations) < ScanWidth)
    /\ [][(GenerateWithIdentity /\ pc = "check_closure") =>
            \/ pc' = "check_closure" /\ ScanRank' > ScanRank
            \/ pc' = "compute_classes" /\ Closed']_vars

\* The scan has ended on a list it extended to a non-commutative group.
C2_Witness ==
    /\ GenerateWithIdentity
    /\ pc = "compute_classes"
    /\ Len(operations) > supplied
    /\ \E a \in Range(operations), b \in Range(operations) :
          MatMul(MatrixOfObject(a), MatrixOfObject(b))
          # MatMul(MatrixOfObject(b), MatrixOfObject(a))

ClassesHolding(x) ==
    { c \in 1..Len(classes) :
          \E m \in classes[c] : MatrixOfObject(m) = MatrixOfObject(x) }

\* The matrices of the conjugates g * x * g.inverse over the group.
ConjugateMatrices(x) ==
    { MatMul(MatMul(MatrixOfObject(g), MatrixOfObject(x)), MatrixOfObject(inverse[g])) :
          g \in Range(operations) }

\* C4: in a constructed group the classes partition the operation list (every
\* operation in exactly one class, classes disjoint, none empty, members all
\* elements) and each class is the set of conjugates of its operations.
C4_ClassesPartition ==
    Constructed =>
        /\ \A x \in Range(operations) : Cardinality(ClassesHolding(x)) = 1
        /\ \A c, d \in 1..Len(classes) : c # d => classes[c] \cap classes[d] = {}
        /\ \A c \in 1..Len(classes) :
              /\ classes[c] # {}
              /\ classes[c] \subseteq Range(operations)
              /\ \A x \in classes[c] :
                    { MatrixOfObject(m) : m \in classes[c] } = ConjugateMatrices(x)

\* A group constructed without self-extension with a class of two operations.
C4_Witness ==
    /\ Constructed
    /\ ~generate_elements
    /\ \E c \in 1..Len(classes) : Cardinality(classes[c]) = 2

\* C5, in the shipped mode (_generate_elements False): a constructed group has
\* no two entries with one matrix, exactly one Identity and at most one
\* Inversion, and was built from a list that held an Identity.
C5_NoDuplicateOperations ==
    (pc = "ready" /\ ~generate_elements) =>
        /\ \A j, k \in 1..Len(operations) :
              j # k => MatrixOfObject(operations[j]) # MatrixOfObject(operations[k])
        /\ Cardinality({ x \in Range(operations) : el[x].kind = "Identity" }) = 1
        /\ Cardinality({ x \in Range(operations) : el[x].kind = "Inversion" }) <= 1
        /\ SuppliedIdentity

\* The group as its users see it.
GroupState == << el, operations, classes, name, opname, inverse, principal_reflection >>

OfKind(kind) == { x \in Range(operations) : el[x].kind = kind }

\* _get_name has run: it returned, or raised UnclassifiableGroup.
Decided == pc = "ready" \/ (pc = "failed" /\ err = "UnclassifiableGroup")

\* The exponent-1 rotations of order > 2.
HighAxes == { x \in OfKind("Rotation") : el[x].n > 2 /\ el[x].exponent = 1 }

AxesOfOrder(n) == { x \in OfKind("Rotation") : el[x].n = n /\ el[x].exponent = 1 }

\* The first rotation of the (sorted) operation list.
FirstRotation ==
    operations[CHOOSE k \in 1..Len(operations) :
                   /\ el[operations[k]].kind = "Rotation"
                   /\ \A h \in 1..(k - 1) : el[operations[h]].kind # "Rotation"]

NameIs(str) == pc = "ready" /\ name = str
RaisedUnclassifiable == pc = "failed" /\ err = "UnclassifiableGroup" /\ name = ""

\* The operations of the list, as a set.
Inventory == { el[x] : x \in Range(operations) }

\* C6: with fewer than two exponent-1 rotations of order > 2 the name is the
\* one of the decision procedure: D_nh / D_nd / D_n / unclassifiable when the
\* twofold rotations perpendicular to the first rotation number n, its order;
\* C_nh / C_nv / S_2n / C_n otherwise; C_s / C_i / C_1 / unclassifiable with no
\* rotation.  The four fixtures get C_2v, C_i, C_s and C_1.
C6_AxialNames ==
    (Decided /\ Cardinality(HighAxes) < 2) =>
        /\ OfKind("Rotation") # {} =>
              LET n == el[FirstRotation].n
                  N == ToString(n)
                  c == Cardinality({ x \in OfKind("Rotation") :
                                       /\ el[x].n = 2
                                       /\ is_perpendicular(el[FirstRotation].axis, el[x].axis) })
                  r == Cardinality(OfKind("Reflection"))
                  h == \E x \in OfKind("Reflection") : principal_reflection[x]
                  s == \E x \in OfKind("ImproperRotation") : el[x].n = 2 * n
              IN  /\ (c = n /\ h) => NameIs("D_" \o N \o "h")
                  /\ (c = n /\ ~h /\ r = n) => NameIs("D_" \o N \o "d")
                  /\ (c = n /\ ~h /\ r # n /\ r = 0) => NameIs("D_" \o N)
                  /\ (c = n /\ ~h /\ r # n /\ r # 0) => RaisedUnclassifiable
                  /\ (c # n /\ h) => NameIs("C_" \o N \o "h")
                  /\ (c # n /\ ~h /\ r = n) => NameIs("C_" \o N \o "v")
                  /\ (c # n /\ ~h /\ r # n /\ s) => NameIs("S_" \o ToString(2 * n))
                  /\ (c # n /\ ~h /\ r # n /\ ~s) => NameIs("C_" \o N)
        /\ OfKind("Rotation") = {} =>
              LET r == Cardinality(OfKind("Reflection"))
                  i == OfKind("Inversion") # {}
              IN  /\ r = 1 => NameIs("C_s")
                  /\ (r # 1 /\ i) => NameIs("C_i")
                  /\ (r # 1 /\ ~i /\ Len(operations) = 1) => NameIs("C_1")
                  /\ (r # 1 /\ ~i /\ Len(operations) # 1) => RaisedUnclassifiable
        /\ (Len(operations) = 4
            /\ Inventory = { IdentityOperation, Rotation(2, 1, ZAxis),
                             Reflection(YAxis), Reflection(XAxis) })
              => NameIs("C_2v")
        /\ (Len(operations) = 2 /\ Inventory = { IdentityOperation, Inversion })
              => NameIs("C_i")
        /\ (Len(operations) = 2 /\ Cardinality(OfKind("Reflection")) = 1
            /\ Cardinality(OfKind("Identity")) = 1)
              => NameIs("C_s")
        /\ (Len(operations) = 1 /\ Inventory = { IdentityOperation })
              => NameIs("C_1")

\* The C_2v fixture has been named.
C6_Witness ==
    /\ NameIs("C_2v")
    /\ Inventory = { IdentityOperation, Rotation(2, 1, ZAxis),
                     Reflection(YAxis), Reflection(XAxis) }

\* The name of an inventory with two or more axes of order > 2, where the
\* reflection counts of TReflections make four threefold axes without
\* inversion the group T.
PolyhedralOutcome(TReflections) ==
    LET i == OfKind("Inversion") # {}
        r == Cardinality(OfKind("Reflection"))
    IN  IF Cardinality(AxesOfOrder(5)) = 12
        THEN NameIs(IF i THEN "I_h" ELSE "I")
        ELSE IF Cardinality(AxesOfOrder(4)) = 6
        THEN NameIs(IF i THEN "O_h" ELSE "O")
        ELSE IF Cardinality(AxesOfOrder(3)) = 4 /\ i
        THEN NameIs("T_h")
        ELSE IF Cardinality(AxesOfOrder(3)) = 4 /\ r = 6
        THEN NameIs("T_d")
        ELSE IF Cardinality(AxesOfOrder(3)) = 4 /\ r \in TReflections
        THEN NameIs("T")
        ELSE RaisedUnclassifiable

\* C7: with two or more exponent-1 rotations of order > 2 the name
\* is I / I_h, O / O_h, T_h, T_d, or T for fewer than 6 reflections, and every
\* other combination raises UnclassifiableGroup with no name assigned.
C7_PolyhedralNames ==
    (Decided /\ Cardinality(HighAxes) >= 2) => PolyhedralOutcome(0..5)

\* The operations have their names.
OperationsNamed == pc = "get_name" \/ Decided

\* The members of kind k with exponent 1 and the order of x.
AxesLike(x) ==
    { y \in OfKind(el[x].kind) : el[y].n = el[x].n /\ el[y].exponent = 1 }

\* The position of x among the operations of its kind and order.
PositionInGroup(x) ==
    Cardinality({ k \in 1..Len(operations) :
                     /\ el[operations[k]].kind = el[x].kind
                     /\ el[operations[k]].n = el[x].n
                     /\ \E h \in k..Len(operations) : operations[h] = x })

CoordinateSuffixes == { << XAxis, "(x)" >>, << YAxis, "(y)" >>, << ZAxis, "(z)" >> }

\* C8: in an order group with several axes an exponent-1 rotation, proper
\* ("C_") or improper ("S_"), has the suffix "(x)", "(y)" or "(z)" exactly when
\* its axis is the x, y or z direction; and a proper and an improper rotation
\* of one order, exponent, axis and position have the same coordinate suffix.
C8_CoordinateSuffixes ==
    OperationsNamed =>
        /\ \A x \in OfKind("Rotation") \cup OfKind("ImproperRotation") :
              (el[x].exponent = 1 /\ Cardinality(AxesLike(x)) >= 2) =>
                  \A cs \in CoordinateSuffixes :
                      opname[x] = (IF el[x].kind = "Rotation" THEN "C_" ELSE "S_")
                                  \o ToString(el[x].n) \o cs[2]
                      <=> is_same_axis(el[x].axis, cs[1])
        /\ \A x \in OfKind("Rotation"), y \in OfKind("ImproperRotation") :
              (/\ el[x].n = el[y].n
               /\ el[x].exponent = el[y].exponent
               /\ el[x].axis = el[y].axis
               /\ PositionInGroup(x) = PositionInGroup(y)
               /\ Cardinality(AxesLike(x)) >= 2
               /\ Cardinality(AxesLike(y)) >= 2) =>
                  \A cs \in CoordinateSuffixes :
                      opname[x] = "C_" \o ToString(el[x].n) \o cs[2]
                      <=> opname[y] = "S_" \o ToString(el[y].n) \o cs[2]

\* The rotations with the order and exponent of the first rotation.
PrincipalGroup ==
    IF OfKind("Rotation") = {} THEN {}
    ELSE { x \in OfKind("Rotation") :
              /\ el[x].n = el[FirstRotation].n
              /\ el[x].exponent = el[FirstRotation].exponent }

Flagged == { x \in OfKind("Reflection") : principal_reflection[x] }

\* C10: when the first group of the sorted rotations has order > 2, the
\* flagged reflections are those on the axis of one of its rotations; when its
\* order is <= 2 only a rotation along z is used: at most one reflection is
\* flagged, it lies on the axis of a z rotation of the group, and with no such
\* rotation none is flagged and the name is neither C_nh nor D_nh.
C10_PrincipalReflections ==
    (OperationsNamed /\ PrincipalGroup # {}) =>
        LET n == el[FirstRotation].n
            zrots == { x \in PrincipalGroup : is_same_axis(el[x].axis, ZAxis) }
        IN  /\ n > 2 =>
                  Flagged = { r \in OfKind("Reflection") :
                                 \E x \in PrincipalGroup :
                                     is_same_axis(el[r].axis, el[x].axis) }
            /\ n <= 2 =>
                  /\ Cardinality(Flagged) <= 1
                  /\ \A r \in Flagged :
                        \E x \in zrots : is_same_axis(el[r].axis, el[x].axis)
                  /\ zrots = {} =>
                        /\ Flagged = {}
                        /\ ~NameIs("C_" \o ToString(n) \o "h")
                        /\ ~NameIs("D_" \o ToString(n) \o "h")

====
